---- MODULE Spec2Model ----
(***************************************************************************)
(* A model of the streaming computation core of yata: the Method contract  *)
(* with its batch drivers (core/method.rs), the cascaded moving average    *)
(* TRIMA (methods/trima.rs) and the two oscillator-with-zone indicators    *)
(* ChandeMomentumOscillator and CommodityChannelIndex (indicators/).       *)
(*                                                                         *)
(* ValueType (f64) is modelled by exact rational numbers <<n, d>> in       *)
(* lowest terms with d > 0, extended by the value NonFinite for the        *)
(* result of a division by zero (inf or NaN in f64).                       *)
(***************************************************************************)
EXTENDS Integers, Sequences, FiniteSets, TLC

VARIABLES
    mjob,    \* the last new_over call: its arguments and its result, or None
    minst,   \* the Method instance driven by hand (new, next, over), or None
    mfed,    \* every input that instance has consumed, in order
    mouts,   \* every output that instance has produced, in order
    mres,    \* what the last call on the method side returned
    winst,   \* a Window with its capacity and seed, or None
    wfed,    \* every value pushed into it, in order
    wouts,   \* every value push returned, in order
    dinst,   \* a CrossAbove and a CrossUnder fed the same pairs, or None
    dfed,    \* the pairs (a, b) fed to them, in order
    douts,   \* their outputs <<above, under>>, in order
    ikind,   \* the indicator in use: "CMO" or "CCI"
    cfg,     \* the IndicatorConfig value the caller holds
    inst,    \* the IndicatorInstance the last successful init returned, or None
    ires,    \* what the last call on the indicator side returned
    ivals,   \* the value of every IndicatorResult of that instance, in order
    isigs,   \* the signal of every IndicatorResult of that instance, in order
    nsets,   \* how many times set has been called
    iorigin, \* the config value init was called on to make that instance, or None
    isrcs    \* the source values that instance has read, the one of init first

mvars == <<mjob, minst, mfed, mouts, mres>>
wvars == <<winst, wfed, wouts>>
dvars == <<dinst, dfed, douts>>
ivars == <<ikind, cfg, inst, ires, ivals, isigs, nsets, iorigin, isrcs>>
vars == <<mvars, wvars, dvars, ivars>>

None == [status |-> "None"]

\* ------------------------------------------------------------ bounds
MaxLen == 4       \* longest input sequence
MaxPeriod == 4    \* largest period (0 is the invalid one)
MaxPairs == 3     \* longest sequence of pairs fed to the crossing detectors
MaxTicks == 3     \* most next calls on one indicator instance
MaxSets == 2      \* most set calls on the config before init
MaxReconfig == 1  \* most set calls on the config when it is also changed after init
MaxLiveTicks == 2 \* most next calls on one instance while the config is being changed
MaxPrefix == 3    \* inputs chosen freely before the input settles on one value

\* ------------------------------------------------------------ ValueType
Abs(x) == IF x < 0 THEN -x ELSE x

RECURSIVE GCD(_, _)
GCD(a, b) == IF b = 0 THEN a ELSE GCD(b, a % b)

NonFinite == <<0, 0>>

Rat(n, d) ==
    IF d = 0 THEN NonFinite
    ELSE LET s == IF d < 0 THEN -1 ELSE 1
             g == GCD(Abs(n), Abs(d))
         IN  <<(s * n) \div g, (s * d) \div g>>

R(n) == <<n, 1>>
Zero == R(0)
One == R(1)

IsFinite(x) == x[2] # 0

RAdd(x, y) == IF IsFinite(x) /\ IsFinite(y)
              THEN Rat(x[1] * y[2] + y[1] * x[2], x[2] * y[2]) ELSE NonFinite
RNeg(x) == <<-x[1], x[2]>>
RSub(x, y) == RAdd(x, RNeg(y))
RMul(x, y) == IF IsFinite(x) /\ IsFinite(y)
              THEN Rat(x[1] * y[1], x[2] * y[2]) ELSE NonFinite
RDiv(x, y) == IF IsFinite(x) /\ IsFinite(y)
              THEN Rat(x[1] * y[2], x[2] * y[1]) ELSE NonFinite
\* comparisons with a non-finite operand are false, as with NaN
RLt(x, y) == IsFinite(x) /\ IsFinite(y) /\ x[1] * y[2] < y[1] * x[2]
RLe(x, y) == IsFinite(x) /\ IsFinite(y) /\ x[1] * y[2] <= y[1] * x[2]
RGt(x, y) == RLt(y, x)
RGe(x, y) == RLe(y, x)

\* ------------------------------------------------------------ results
Ok(v) == [status |-> "Ok", val |-> v, err |-> "", calls |-> <<>>, news |-> 0]
Err(e) == [status |-> "Err", val |-> <<>>, err |-> e, calls |-> <<>>, news |-> 0]
Panic(msg) == [status |-> "Panic", val |-> <<>>, err |-> msg, calls |-> <<>>, news |-> 0]

\* ------------------------------------------------------------ Window
\* Fixed-capacity ring: every slot seeded, push overwrites the oldest slot,
\* advances the cursor modulo the capacity and returns the evicted value.
Window_new(size, value) == [buf |-> [i \in 1..size |-> value], index |-> 1]

\* a push that forgets to advance the cursor
Window_push_stuck(w, value) ==
    [w   |-> [buf   |-> [w.buf EXCEPT ![w.index] = value],
              index |-> w.index],
     out |-> w.buf[w.index]]

Window_push(w, value) ==
    [w   |-> [buf   |-> [w.buf EXCEPT ![w.index] = value],
              index |-> (w.index % Len(w.buf)) + 1],
     out |-> w.buf[w.index]]

\* ------------------------------------------------------------ SMA
\* Simple moving average: a Window of `length` values and their running sum.
\* a window one slot longer than the period
SMA_new_wide(length, value) ==
    IF length = 0 THEN Err("WrongMethodParameters")
    ELSE Ok([length |-> length,
             sum    |-> RMul(R(length), value),
             window |-> Window_new(length + 1, value)])

SMA_new(length, value) ==
    IF length = 0 THEN Err("WrongMethodParameters")
    ELSE Ok([length |-> length,
             sum    |-> RMul(R(length), value),
             window |-> Window_new(length, value)])

\* a running sum that never subtracts the evicted value
SMA_next_noevict(s, value) ==
    LET p   == Window_push(s.window, value)
        sum == RAdd(s.sum, value)
    IN  [st  |-> [s EXCEPT !.sum = sum, !.window = p.w],
         out |-> RDiv(sum, R(s.length))]

SMA_next(s, value) ==
    LET p   == Window_push(s.window, value)
        sum == RAdd(s.sum, RSub(value, p.out))
    IN  [st  |-> [s EXCEPT !.sum = sum, !.window = p.w],
         out |-> RDiv(sum, R(s.length))]

\* ------------------------------------------------------------ TRIMA
\* debug_assert!(length > 0), then two SMAs of the same length and seed.
\* The assertion is modelled as it acts where debug assertions are compiled
\* in: length 0 panics. (Where they are compiled out, new returns a TRIMA of
\* two SMAs of length 0; new returns Self, so no build returns an error.)
\* a second stage one longer than the first
TRIMA_new_longer(length, value) ==
    IF length = 0 THEN Panic("TRIMA: length should be > 0")
    ELSE Ok([sma1 |-> SMA_new(length, value).val,
             sma2 |-> SMA_new(length + 1, value).val])

TRIMA_new(length, value) ==
    IF length = 0 THEN Panic("TRIMA: length should be > 0")
    ELSE Ok([sma1 |-> SMA_new(length, value).val,
             sma2 |-> SMA_new(length, value).val])

\* a cascade that feeds the raw value to the second stage as well
TRIMA_next_raw(s, value) ==
    LET r1 == SMA_next(s.sma1, value)
        r2 == SMA_next(s.sma2, value)
    IN  [st  |-> [sma1 |-> r1.st, sma2 |-> r2.st],
         out |-> r2.out]

\* a cascade that returns the output of its first stage
TRIMA_next_first(s, value) ==
    LET r1 == SMA_next(s.sma1, value)
        r2 == SMA_next(s.sma2, r1.out)
    IN  [st  |-> [sma1 |-> r1.st, sma2 |-> r2.st],
         out |-> r1.out]

TRIMA_next(s, value) ==
    LET r1 == SMA_next(s.sma1, value)
        r2 == SMA_next(s.sma2, r1.out)
    IN  [st  |-> [sma1 |-> r1.st, sma2 |-> r2.st],
         out |-> r2.out]

\* ------------------------------------------------------------ Change
\* Differencing over `length` ticks: a Window of raw inputs whose evicted
\* value is the one from `length` ticks ago.
Change_new(length, value) ==
    IF length = 0 THEN Err("WrongMethodParameters")
    ELSE Ok([window |-> Window_new(length, value)])

Change_next(s, value) ==
    LET p == Window_push(s.window, value)
    IN  [st |-> [window |-> p.w], out |-> RSub(value, p.out)]

\* ------------------------------------------------------------ Method
MethodKinds == {"SMA", "TRIMA", "Change"}

\* Method::new of the implementing type; an instance is [kind, st].
Method_new(kind, parameters, initial_value) ==
    LET r == CASE kind = "SMA" -> SMA_new(parameters, initial_value)
               [] kind = "TRIMA" -> TRIMA_new(parameters, initial_value)
               [] kind = "Change" -> Change_new(parameters, initial_value)
    IN  IF r.status = "Ok"
        THEN [r EXCEPT !.val = [kind |-> kind, st |-> r.val], !.news = 1]
        ELSE [r EXCEPT !.news = 1]

\* Method::next of the implementing type.
Method_next(m, value) ==
    LET r == CASE m.kind = "SMA" -> SMA_next(m.st, value)
               [] m.kind = "TRIMA" -> TRIMA_next(m.st, value)
               [] m.kind = "Change" -> Change_next(m.st, value)
    IN  [m |-> [m EXCEPT !.st = r.st], out |-> r.out]

\* an over that stops one element early
RECURSIVE Method_over_short(_, _)
Method_over_short(m, inputs) ==
    IF Len(inputs) <= 1 THEN [m |-> m, out |-> <<>>, calls |-> <<>>]
    ELSE LET r    == Method_next(m, Head(inputs))
             rest == Method_over_short(r.m, Tail(inputs))
         IN  [m     |-> rest.m,
              out   |-> <<r.out>> \o rest.out,
              calls |-> <<Head(inputs)>> \o rest.calls]

\* Method::over: inputs.iter().map(|x| self.next(x)).collect()
\* `calls` lists the arguments of the calls of next it made, in order.
RECURSIVE Method_over(_, _)
Method_over(m, inputs) ==
    IF inputs = <<>> THEN [m |-> m, out |-> <<>>, calls |-> <<>>]
    ELSE LET r    == Method_next(m, Head(inputs))
             rest == Method_over(r.m, Tail(inputs))
         IN  [m     |-> rest.m,
              out   |-> <<r.out>> \o rest.out,
              calls |-> <<Head(inputs)>> \o rest.calls]

\* a new_over that seeds from the last element instead of the first
Method_new_over_last(kind, parameters, inputs) ==
    IF inputs = <<>> THEN Ok(<<>>)
    ELSE LET method == Method_new(kind, parameters, inputs[Len(inputs)])
         IN  IF method.status # "Ok" THEN method
             ELSE LET o == Method_over(method.val, inputs)
                  IN  [Ok(o.out) EXCEPT !.calls = o.calls, !.news = 1]

\* Method::new_over: empty input returns before new; `?` passes an error on.
Method_new_over(kind, parameters, inputs) ==
    IF inputs = <<>> THEN Ok(<<>>)
    ELSE LET method == Method_new(kind, parameters, inputs[1])
         IN  IF method.status # "Ok" THEN method
             ELSE LET o == Method_over(method.val, inputs)
                  IN  [Ok(o.out) EXCEPT !.calls = o.calls, !.news = 1]

\* ------------------------------------------------------------ crossing
\* CrossAbove and CrossUnder hold the previous pair; default() is the pair
\* (0, 0), new((), pair) the given pair. The output is the unit 1 or 0.
CrossAbove_default == [last |-> <<Zero, Zero>>]
CrossUnder_default == [last |-> <<Zero, Zero>>]

CrossAbove_new(value) == [last |-> value]
CrossUnder_new(value) == [last |-> value]

\* a detector that needs the previous pair strictly below
CrossAbove_next_strict(s, value) ==
    [st  |-> [last |-> value],
     out |-> IF RLt(s.last[1], s.last[2]) /\ RGt(value[1], value[2]) THEN 1 ELSE 0]

CrossAbove_next(s, value) ==
    [st  |-> [last |-> value],
     out |-> IF RLe(s.last[1], s.last[2]) /\ RGt(value[1], value[2]) THEN 1 ELSE 0]

CrossUnder_next(s, value) ==
    [st  |-> [last |-> value],
     out |-> IF RGe(s.last[1], s.last[2]) /\ RLt(value[1], value[2]) THEN 1 ELSE 0]

\* ------------------------------------------------------------ parsing
\* A raw parameter value is a string, here the sequence of its characters.
Digits == <<"0", "1", "2", "3", "4", "5", "6", "7", "8", "9">>

IsDigit(c) == \E i \in 1..10 : Digits[i] = c

DigitValue(c) == (CHOOSE i \in 1..10 : Digits[i] = c) - 1

AllDigits(raw) == \A i \in 1..Len(raw) : IsDigit(raw[i])

RECURSIVE DecimalValue(_)
DecimalValue(raw) ==
    IF raw = <<>> THEN 0
    ELSE 10 * DecimalValue(SubSeq(raw, 1, Len(raw) - 1)) + DigitValue(raw[Len(raw)])

RECURSIVE Pow10(_)
Pow10(n) == IF n = 0 THEN 1 ELSE 10 * Pow10(n - 1)

PeriodTypeMAX == 255

\* str::parse::<PeriodType>: an optional '+', then one or more digits, and
\* the number must fit the type.
ParsePeriod(raw) ==
    LET body == IF raw # <<>> /\ raw[1] = "+" THEN Tail(raw) ELSE raw
    IN  IF body # <<>> /\ AllDigits(body) /\ DecimalValue(body) <= PeriodTypeMAX
        THEN Ok(DecimalValue(body))
        ELSE Err("ParseIntError")

\* str::parse::<ValueType>: an optional sign, digits with at most one '.',
\* at least one digit (exponents, inf and nan are left out).
ParseValue(raw) ==
    LET neg   == raw # <<>> /\ raw[1] = "-"
        body  == IF raw # <<>> /\ raw[1] \in {"+", "-"} THEN Tail(raw) ELSE raw
        dots  == {i \in 1..Len(body) : body[i] = "."}
        dot   == IF dots = {} THEN Len(body) + 1 ELSE CHOOSE i \in dots : TRUE
        whole == SubSeq(body, 1, dot - 1)
        frac  == SubSeq(body, dot + 1, Len(body))
        mag   == Rat(DecimalValue(whole) * Pow10(Len(frac)) + DecimalValue(frac),
                     Pow10(Len(frac)))
    IN  IF /\ Cardinality(dots) <= 1
           /\ AllDigits(whole) /\ AllDigits(frac)
           /\ Len(whole) + Len(frac) >= 1
        THEN Ok(IF neg THEN RNeg(mag) ELSE mag)
        ELSE Err("ParseFloatError")

\* str::parse::<Source>: the name of a candle field.
ParseSource(raw) ==
    IF raw = <<"c", "l", "o", "s", "e">> THEN Ok("Close")
    ELSE IF raw = <<"o", "p", "e", "n">> THEN Ok("Open")
    ELSE Err("UnknownSource")

\* Error::ParameterParse(name, value)
ParameterParse(name, value) ==
    [Err("ParameterParse") EXCEPT !.val = <<name, value>>]

\* OHLCV::source
Candle_source(candle, source) ==
    IF source = "Close" THEN candle.close ELSE candle.open

\* ------------------------------------------------------------ ChandeMomentumOscillator
CMO_default == [period |-> 9, zone |-> Rat(1, 2), source |-> "Close"]

\* a validate that forgets the lower end of the zone range
CMO_validate_nolow(c) == RLe(c.zone, One) /\ c.period > 1

CMO_validate(c) == RGe(c.zone, Zero) /\ RLe(c.zone, One) /\ c.period > 1

\* a set that accepts an unknown parameter name silently
CMO_set_silent(c, name, value) ==
    CASE name = "period" ->
            LET r == ParsePeriod(value)
            IN  IF r.status = "Err" THEN [cfg |-> c, res |-> ParameterParse(name, value)]
                ELSE [cfg |-> [c EXCEPT !.period = r.val], res |-> Ok(<<>>)]
      [] name = "zone" ->
            LET r == ParseValue(value)
            IN  IF r.status = "Err" THEN [cfg |-> c, res |-> ParameterParse(name, value)]
                ELSE [cfg |-> [c EXCEPT !.zone = r.val], res |-> Ok(<<>>)]
      [] name = "source" ->
            LET r == ParseSource(value)
            IN  IF r.status = "Err" THEN [cfg |-> c, res |-> ParameterParse(name, value)]
                ELSE [cfg |-> [c EXCEPT !.source = r.val], res |-> Ok(<<>>)]
      [] OTHER -> [cfg |-> c, res |-> Ok(<<>>)]

\* set returns the Result and leaves the config as the match arms assigned it
CMO_set(c, name, value) ==
    CASE name = "period" ->
            LET r == ParsePeriod(value)
            IN  IF r.status = "Err" THEN [cfg |-> c, res |-> ParameterParse(name, value)]
                ELSE [cfg |-> [c EXCEPT !.period = r.val], res |-> Ok(<<>>)]
      [] name = "zone" ->
            LET r == ParseValue(value)
            IN  IF r.status = "Err" THEN [cfg |-> c, res |-> ParameterParse(name, value)]
                ELSE [cfg |-> [c EXCEPT !.zone = r.val], res |-> Ok(<<>>)]
      [] name = "source" ->
            LET r == ParseSource(value)
            IN  IF r.status = "Err" THEN [cfg |-> c, res |-> ParameterParse(name, value)]
                ELSE [cfg |-> [c EXCEPT !.source = r.val], res |-> Ok(<<>>)]
      [] OTHER -> [cfg |-> c, res |-> ParameterParse(name, value)]

\* an init that seeds the window of changes with the first source value
CMO_init_seeded(c, candle) ==
    IF ~CMO_validate(c) THEN Err("WrongConfig")
    ELSE LET change == Change_new(1, Candle_source(candle, c.source))
         IN  IF change.status # "Ok"
             THEN [change EXCEPT !.calls = <<"Change::new">>]
             ELSE [Ok([cfg         |-> c,
                       pos_sum     |-> Zero,
                       neg_sum     |-> Zero,
                       change      |-> change.val,
                       window      |-> Window_new(c.period,
                                                  Candle_source(candle, c.source)),
                       cross_under |-> CrossUnder_default,
                       cross_above |-> CrossAbove_default])
                   EXCEPT !.calls = <<"Change::new", "Window::new",
                                      "CrossUnder::default", "CrossAbove::default">>]

\* init: validate first; then the fields of the instance in the order written.
\* `calls` lists the constructors of the constituents it ran.
CMO_init(c, candle) ==
    IF ~CMO_validate(c) THEN Err("WrongConfig")
    ELSE LET change == Change_new(1, Candle_source(candle, c.source))
         IN  IF change.status # "Ok"
             THEN [change EXCEPT !.calls = <<"Change::new">>]
             ELSE [Ok([cfg         |-> c,
                       pos_sum     |-> Zero,
                       neg_sum     |-> Zero,
                       change      |-> change.val,
                       window      |-> Window_new(c.period, Zero),
                       cross_under |-> CrossUnder_default,
                       cross_above |-> CrossAbove_default])
                   EXCEPT !.calls = <<"Change::new", "Window::new",
                                      "CrossUnder::default", "CrossAbove::default">>]

\* a change that keeps the sign of a negative change
CMO_change_signed(change) ==
    LET pos == RMul(R(IF RGt(change, Zero) THEN 1 ELSE 0), change)
        neg == RMul(R(IF RLt(change, Zero) THEN 1 ELSE 0), change)
    IN  <<pos, neg>>

\* fn change: the positive part and the magnitude of the negative part
CMO_change(change) ==
    LET pos == RMul(R(IF RGt(change, Zero) THEN 1 ELSE 0), change)
        neg == RMul(R(IF RLt(change, Zero) THEN 1 ELSE 0), RNeg(change))
    IN  <<pos, neg>>

\* a next that subtracts the detectors the other way round
CMO_next_swapped(i, candle) ==
    LET c          == Change_next(i.change, Candle_source(candle, i.cfg.source))
        ch         == c.out
        w          == Window_push(i.window, ch)
        left       == CMO_change(w.out)
        right      == CMO_change(ch)
        pos_sum    == RAdd(i.pos_sum, RSub(right[1], left[1]))
        neg_sum    == RAdd(i.neg_sum, RSub(right[2], left[2]))
        divides    == pos_sum # Zero \/ neg_sum # Zero
        value      == IF divides
                      THEN RDiv(RSub(pos_sum, neg_sum), RAdd(pos_sum, neg_sum))
                      ELSE Zero
        under      == CrossUnder_next(i.cross_under, <<value, RNeg(i.cfg.zone)>>)
        above      == CrossAbove_next(i.cross_above, <<value, i.cfg.zone>>)
    IN  [inst    |-> [i EXCEPT !.change = c.st, !.window = w.w,
                               !.pos_sum = pos_sum, !.neg_sum = neg_sum,
                               !.cross_under = under.st, !.cross_above = above.st],
         value   |-> value,
         signal  |-> above.out - under.out,
         divisor |-> IF divides THEN <<RAdd(pos_sum, neg_sum)>> ELSE <<>>]

\* next; `divisor` is <<d>> when the division by d was executed, else <<>>
CMO_next(i, candle) ==
    LET c          == Change_next(i.change, Candle_source(candle, i.cfg.source))
        ch         == c.out
        w          == Window_push(i.window, ch)
        left       == CMO_change(w.out)
        right      == CMO_change(ch)
        pos_sum    == RAdd(i.pos_sum, RSub(right[1], left[1]))
        neg_sum    == RAdd(i.neg_sum, RSub(right[2], left[2]))
        divides    == pos_sum # Zero \/ neg_sum # Zero
        value      == IF divides
                      THEN RDiv(RSub(pos_sum, neg_sum), RAdd(pos_sum, neg_sum))
                      ELSE Zero
        under      == CrossUnder_next(i.cross_under, <<value, RNeg(i.cfg.zone)>>)
        above      == CrossAbove_next(i.cross_above, <<value, i.cfg.zone>>)
    IN  [inst    |-> [i EXCEPT !.change = c.st, !.window = w.w,
                               !.pos_sum = pos_sum, !.neg_sum = neg_sum,
                               !.cross_under = under.st, !.cross_above = above.st],
         value   |-> value,
         signal  |-> under.out - above.out,
         divisor |-> IF divides THEN <<RAdd(pos_sum, neg_sum)>> ELSE <<>>]

\* ------------------------------------------------------------ CommodityChannelIndex
SCALE == Rat(2, 3)

CCI_default == [period |-> 18, zone |-> One, source |-> "Close"]

\* a validate that lets the largest period through
CCI_validate_max(c) == RGe(c.zone, Zero) /\ c.period > 1 /\ c.period <= PeriodTypeMAX

CCI_validate(c) == RGe(c.zone, Zero) /\ c.period > 1 /\ c.period < PeriodTypeMAX

CCI_set(c, name, value) ==
    CASE name = "period" ->
            LET r == ParsePeriod(value)
            IN  IF r.status = "Err" THEN [cfg |-> c, res |-> ParameterParse(name, value)]
                ELSE [cfg |-> [c EXCEPT !.period = r.val], res |-> Ok(<<>>)]
      [] name = "zone" ->
            LET r == ParseValue(value)
            IN  IF r.status = "Err" THEN [cfg |-> c, res |-> ParameterParse(name, value)]
                ELSE [cfg |-> [c EXCEPT !.zone = r.val], res |-> Ok(<<>>)]
      [] name = "source" ->
            LET r == ParseSource(value)
            IN  IF r.status = "Err" THEN [cfg |-> c, res |-> ParameterParse(name, value)]
                ELSE [cfg |-> [c EXCEPT !.source = r.val], res |-> Ok(<<>>)]
      [] OTHER -> [cfg |-> c, res |-> ParameterParse(name, value)]

\* The method CCI: its formula is outside the model. Its state is kept
\* opaque and the value each next returns is an input of the tick.
CCI_new(length, value) ==
    IF length = 0 THEN Err("WrongMethodParameters")
    ELSE Ok([length |-> length])

CCI_init(c, candle) ==
    IF ~CCI_validate(c) THEN Err("WrongConfig")
    ELSE LET value == Candle_source(candle, c.source)
             cci   == CCI_new(c.period, value)
         IN  IF cci.status # "Ok"
             THEN [cci EXCEPT !.calls = <<"CCI::new">>]
             ELSE [Ok([cfg         |-> c,
                       cci         |-> cci.val,
                       last_cci    |-> Zero,
                       last_signal |-> 0])
                   EXCEPT !.calls = <<"CCI::new">>]

\* a next whose sell needs the previous value strictly inside the zone
CCI_next_strict(i, candle, method_out) ==
    LET cci      == RMul(method_out, SCALE)
        zone     == i.cfg.zone
        t_signal == (IF RLt(cci, RNeg(zone)) /\ RGe(i.last_cci, RNeg(zone)) THEN 1 ELSE 0)
                    - (IF RGt(cci, zone) /\ RLt(i.last_cci, zone) THEN 1 ELSE 0)
        signal   == (IF t_signal # 0 /\ i.last_signal # t_signal THEN 1 ELSE 0) * t_signal
    IN  [inst    |-> [i EXCEPT !.last_cci = cci, !.last_signal = signal],
         value   |-> cci,
         signal  |-> signal,
         divisor |-> <<>>]

\* a next that keeps the last nonzero signal on a tick without a signal
CCI_next_sticky(i, candle, method_out) ==
    LET cci      == RMul(method_out, SCALE)
        zone     == i.cfg.zone
        t_signal == (IF RLt(cci, RNeg(zone)) /\ RGe(i.last_cci, RNeg(zone)) THEN 1 ELSE 0)
                    - (IF RGt(cci, zone) /\ RLe(i.last_cci, zone) THEN 1 ELSE 0)
        signal   == (IF t_signal # 0 /\ i.last_signal # t_signal THEN 1 ELSE 0) * t_signal
    IN  [inst    |-> [i EXCEPT !.last_cci = cci,
                               !.last_signal = IF signal # 0 THEN signal
                                               ELSE i.last_signal],
         value   |-> cci,
         signal  |-> signal,
         divisor |-> <<>>]

\* next; `method_out` is what self.cci.next(&value) returned
CCI_next(i, candle, method_out) ==
    LET cci      == RMul(method_out, SCALE)
        zone     == i.cfg.zone
        t_signal == (IF RLt(cci, RNeg(zone)) /\ RGe(i.last_cci, RNeg(zone)) THEN 1 ELSE 0)
                    - (IF RGt(cci, zone) /\ RLe(i.last_cci, zone) THEN 1 ELSE 0)
        signal   == (IF t_signal # 0 /\ i.last_signal # t_signal THEN 1 ELSE 0) * t_signal
    IN  [inst    |-> [i EXCEPT !.last_cci = cci, !.last_signal = signal],
         value   |-> cci,
         signal  |-> signal,
         divisor |-> <<>>]

\* ------------------------------------------------------------ IndicatorConfig
IndicatorKinds == {"CMO", "CCI"}

Config_default(kind) == IF kind = "CMO" THEN CMO_default ELSE CCI_default

Config_validate(kind, c) == IF kind = "CMO" THEN CMO_validate(c) ELSE CCI_validate(c)

Config_set(kind, c, name, value) ==
    IF kind = "CMO" THEN CMO_set(c, name, value) ELSE CCI_set(c, name, value)

Config_init(kind, c, candle) ==
    IF kind = "CMO" THEN CMO_init(c, candle) ELSE CCI_init(c, candle)

Instance_next(kind, i, candle, method_out) ==
    IF kind = "CMO" THEN CMO_next(i, candle) ELSE CCI_next(i, candle, method_out)

\* ------------------------------------------------------------ inputs
InputValues == {R(1), R(2), R(3), R(4)}

SeedValues == {R(1), R(2)}

SeqsUpTo(S, n) == UNION {[1..k -> S] : k \in 0..n}

Periods == 0..MaxPeriod

\* ------------------------------------------------------------ method side
\* A caller either runs new_over on a whole sequence, or constructs an
\* instance and drives it by next and over.
MInit ==
    /\ mjob = None
    /\ minst = None
    /\ mfed = <<>>
    /\ mouts = <<>>
    /\ mres = None

MethodNewOver(kind, parameters, inputs) ==
    /\ LET r == Method_new_over(kind, parameters, inputs)
       IN  /\ mjob' = [status |-> "Job", kind |-> kind, parameters |-> parameters,
                       inputs |-> inputs, res |-> r]
           /\ mres' = [op |-> "new_over", res |-> r, arg |-> inputs]
    /\ UNCHANGED <<minst, mfed, mouts>>
    /\ UNCHANGED <<wvars, dvars, ivars>>

MethodNew(kind, parameters, initial_value) ==
    /\ LET r == Method_new(kind, parameters, initial_value)
       IN  /\ minst' = IF r.status = "Ok"
                       THEN [status |-> "Live", m |-> r.val,
                             parameters |-> parameters, seed |-> initial_value]
                       ELSE None
           /\ mres' = [op |-> "new", res |-> r, arg |-> <<initial_value>>,
                       kind |-> kind, parameters |-> parameters]
    /\ UNCHANGED <<mjob, mfed, mouts>>
    /\ UNCHANGED <<wvars, dvars, ivars>>

MethodNext(value) ==
    /\ LET r == Method_next(minst.m, value)
       IN  /\ minst' = [minst EXCEPT !.m = r.m]
           /\ mfed' = Append(mfed, value)
           /\ mouts' = Append(mouts, r.out)
           /\ mres' = [op |-> "next", res |-> Ok(r.out), arg |-> <<value>>]
    /\ UNCHANGED mjob
    /\ UNCHANGED <<wvars, dvars, ivars>>

MethodOver(inputs) ==
    /\ LET r == Method_over(minst.m, inputs)
       IN  /\ minst' = [minst EXCEPT !.m = r.m]
           /\ mfed' = mfed \o inputs
           /\ mouts' = mouts \o r.out
           /\ mres' = [op |-> "over", res |-> [Ok(r.out) EXCEPT !.calls = r.calls],
                       arg |-> inputs]
    /\ UNCHANGED mjob
    /\ UNCHANGED <<wvars, dvars, ivars>>

MNext ==
    \/ /\ mjob = None /\ minst = None /\ mres = None
       /\ \E kind \in MethodKinds, p \in Periods, s \in SeqsUpTo(InputValues, MaxLen) :
             MethodNewOver(kind, p, s)
    \/ /\ mjob = None /\ minst = None /\ mres = None
       /\ \E kind \in MethodKinds, p \in Periods, v \in SeedValues :
             MethodNew(kind, p, v)
    \/ /\ minst # None /\ Len(mfed) < MaxLen
       /\ \E v \in InputValues : MethodNext(v)
    \/ /\ minst # None /\ mfed = <<>>
       /\ \E s \in SeqsUpTo(InputValues, MaxLen) : MethodOver(s)

\* a caller whose input settles: after MaxPrefix free inputs every further
\* input repeats the one before, long enough for a cascade of two stages of
\* the largest period to settle
SNext ==
    \/ /\ mjob = None /\ minst = None /\ mres = None
       /\ \E kind \in MethodKinds, p \in Periods, v \in SeedValues :
             MethodNew(kind, p, v)
    \/ /\ minst # None /\ Len(mfed) < MaxPrefix
       /\ \E v \in InputValues : MethodNext(v)
    \/ /\ minst # None /\ Len(mfed) >= MaxPrefix
       /\ Len(mfed) < MaxPrefix + 2 * MaxPeriod - 1
       /\ MethodNext(mfed[Len(mfed)])

\* ------------------------------------------------------------ window side
\* A Window constructed with a capacity and a seed, then pushed into.
Capacities == 1..MaxPeriod

WInit ==
    /\ winst = None
    /\ wfed = <<>>
    /\ wouts = <<>>

WindowNew(size, value) ==
    /\ winst' = [status |-> "Live", w |-> Window_new(size, value),
                 size |-> size, seed |-> value]
    /\ UNCHANGED <<wfed, wouts>>
    /\ UNCHANGED <<mvars, dvars, ivars>>

WindowPush(value) ==
    /\ LET r == Window_push(winst.w, value)
       IN  /\ winst' = [winst EXCEPT !.w = r.w]
           /\ wfed' = Append(wfed, value)
           /\ wouts' = Append(wouts, r.out)
    /\ UNCHANGED <<mvars, dvars, ivars>>

WNext ==
    \/ /\ winst = None
       /\ \E size \in Capacities, v \in SeedValues : WindowNew(size, v)
    \/ /\ winst # None /\ Len(wfed) < MaxLen + 1
       /\ \E v \in InputValues : WindowPush(v)

\* ------------------------------------------------------------ detector side
\* The two detectors, constructed either by new from the first pair of the
\* stream (the Method contract) or by default() (as the Chande oscillator
\* constructs them), and then fed the stream pair by pair.
PairValues == {<<R(a), R(b)>> : a \in {-1, 0, 1}, b \in {0, 1}}

DInit ==
    /\ dinst = None
    /\ dfed = <<>>
    /\ douts = <<>>

CrossNew(value) ==
    /\ dinst' = [status |-> "Live", ctor |-> "new", seed |-> value,
                 above |-> CrossAbove_new(value), under |-> CrossUnder_new(value)]
    /\ UNCHANGED <<dfed, douts>>
    /\ UNCHANGED <<mvars, wvars, ivars>>

CrossDefault ==
    /\ dinst' = [status |-> "Live", ctor |-> "default", seed |-> <<Zero, Zero>>,
                 above |-> CrossAbove_default, under |-> CrossUnder_default]
    /\ UNCHANGED <<dfed, douts>>
    /\ UNCHANGED <<mvars, wvars, ivars>>

CrossNext(value) ==
    /\ LET a == CrossAbove_next(dinst.above, value)
           u == CrossUnder_next(dinst.under, value)
       IN  /\ dinst' = [dinst EXCEPT !.above = a.st, !.under = u.st]
           /\ dfed' = Append(dfed, value)
           /\ douts' = Append(douts, <<a.out, u.out>>)
    /\ UNCHANGED <<mvars, wvars, ivars>>

DNext ==
    \/ /\ dinst = None
       /\ \E v \in PairValues : CrossNew(v)
    \/ /\ dinst = None
       /\ CrossDefault
    \/ /\ dinst # None /\ Len(dfed) < MaxPairs
       /\ \E v \in PairValues :
             /\ (dinst.ctor = "new" /\ dfed = <<>>) => v = dinst.seed
             /\ CrossNext(v)

\* ------------------------------------------------------------ indicator side
\* A caller holds a config (the default one, changed by set), calls init on
\* it with a first candle, and feeds the instance one candle per tick.
ParamNames == {"period", "zone", "source", "length"}

RawValues ==
    { <<"1">>, <<"2">>, <<"2", "5", "5">>, <<"2", "5", "6">>, <<"0", ".", "5">>,
      <<"-", "1">>, <<"o", "p", "e", "n">> }

CandleValues == {R(1), R(2), R(3)}

Candles == {[open |-> o, close |-> c] : o \in CandleValues, c \in CandleValues}

AnyCandle == [open |-> R(1), close |-> R(1)]

\* what the method CCI may return on a tick
MethodOutputs == {R(-3), Rat(-3, 2), Zero, Rat(3, 2), R(3)}

IInit ==
    /\ ikind \in IndicatorKinds
    /\ cfg = Config_default(ikind)
    /\ inst = None
    /\ ires = None
    /\ ivals = <<>>
    /\ isigs = <<>>
    /\ nsets = 0
    /\ iorigin = None
    /\ isrcs = <<>>

IIdle ==
    /\ ikind = "CMO"
    /\ cfg = Config_default(ikind)
    /\ inst = None
    /\ ires = None
    /\ ivals = <<>>
    /\ isigs = <<>>
    /\ nsets = 0
    /\ iorigin = None
    /\ isrcs = <<>>

\* a set that reaches the config of the live instance as well
IndicatorSet_shared(name, value) ==
    /\ LET r == Config_set(ikind, cfg, name, value)
       IN  /\ cfg' = r.cfg
           /\ inst' = IF inst = None THEN inst ELSE [inst EXCEPT !.i.cfg = r.cfg]
           /\ ires' = [op |-> "set", name |-> name, raw |-> value,
                       before |-> cfg, res |-> r.res]
    /\ nsets' = nsets + 1
    /\ UNCHANGED <<ikind, ivals, isigs, iorigin, isrcs>>
    /\ UNCHANGED <<mvars, wvars, dvars>>

IndicatorSet(name, value) ==
    /\ LET r == Config_set(ikind, cfg, name, value)
       IN  /\ cfg' = r.cfg
           /\ ires' = [op |-> "set", name |-> name, raw |-> value,
                       before |-> cfg, res |-> r.res]
    /\ nsets' = nsets + 1
    /\ UNCHANGED <<ikind, inst, ivals, isigs, iorigin, isrcs>>
    /\ UNCHANGED <<mvars, wvars, dvars>>

IndicatorInit(candle) ==
    /\ LET r == Config_init(ikind, cfg, candle)
       IN  /\ ires' = [op |-> "init", before |-> cfg, res |-> r]
           /\ IF r.status = "Ok"
              THEN /\ inst' = [status |-> "Live", i |-> r.val]
                   /\ ivals' = <<>>
                   /\ isigs' = <<>>
                   /\ iorigin' = cfg
                   /\ isrcs' = <<Candle_source(candle, cfg.source)>>
              ELSE UNCHANGED <<inst, ivals, isigs, iorigin, isrcs>>
    /\ UNCHANGED <<ikind, cfg, nsets>>
    /\ UNCHANGED <<mvars, wvars, dvars>>

IndicatorNext(candle, method_out) ==
    /\ LET r == Instance_next(ikind, inst.i, candle, method_out)
       IN  /\ inst' = [inst EXCEPT !.i = r.inst]
           /\ ivals' = Append(ivals, r.value)
           /\ isigs' = Append(isigs, r.signal)
           /\ ires' = [op |-> "next", value |-> r.value, signal |-> r.signal,
                       divisor |-> r.divisor]
    /\ isrcs' = Append(isrcs, Candle_source(candle, inst.i.cfg.source))
    /\ UNCHANGED <<ikind, cfg, nsets, iorigin>>
    /\ UNCHANGED <<mvars, wvars, dvars>>

\* configure, init, run: set is called only before the instance exists
INext ==
    \/ /\ inst = None /\ nsets < MaxSets
       /\ \E name \in ParamNames, value \in RawValues : IndicatorSet(name, value)
    \/ /\ inst = None \/ ivals # <<>>
       /\ \E candle \in Candles : IndicatorInit(candle)
    \/ /\ inst # None /\ Len(ivals) < MaxTicks /\ ikind = "CMO"
       /\ \E candle \in Candles : IndicatorNext(candle, Zero)
    \/ /\ inst # None /\ Len(ivals) < MaxTicks /\ ikind = "CCI"
       /\ \E m \in MethodOutputs : IndicatorNext(AnyCandle, m)

\* reconfiguration: set and init are called at any time, also while an
\* instance is live
CNext ==
    \/ /\ nsets < MaxReconfig
       /\ \E name \in ParamNames, value \in RawValues : IndicatorSet(name, value)
    \/ \E candle \in Candles : IndicatorInit(candle)
    \/ /\ inst # None /\ Len(ivals) < MaxLiveTicks /\ ikind = "CMO"
       /\ \E candle \in Candles : IndicatorNext(candle, Zero)
    \/ /\ inst # None /\ Len(ivals) < MaxLiveTicks /\ ikind = "CCI"
       /\ \E m \in MethodOutputs : IndicatorNext(AnyCandle, m)

\* ------------------------------------------------------------ specifications
InitMethod == MInit /\ WInit /\ DInit /\ IIdle

SpecMethod == InitMethod /\ [][MNext]_vars

SpecCross == InitMethod /\ [][DNext]_vars

SpecSettle == InitMethod /\ [][SNext]_vars

SpecWindow == InitMethod /\ [][WNext]_vars

InitIndicator == MInit /\ WInit /\ DInit /\ IInit

SpecIndicator == InitIndicator /\ [][INext]_vars

SpecConfig == InitIndicator /\ [][CNext]_vars

\* ------------------------------------------------------------ claims
\* C1: over calls next exactly once per element, in input order, and returns
\* as many outputs as it was given inputs (empty input and inputs shorter
\* than the period included); new_over returns as many outputs as inputs
\* whenever it returns Ok.
C1_LengthPreserved ==
    /\ (mres # None /\ mres.op = "over") =>
          /\ Len(mres.res.val) = Len(mres.arg)
          /\ mres.res.calls = mres.arg
    /\ (mres # None /\ mres.op = "new_over" /\ mres.res.status = "Ok") =>
          /\ Len(mres.res.val) = Len(mres.arg)
          /\ mres.res.calls = mres.arg

C1_Witness ==
    /\ mres # None /\ mres.op = "over"
    /\ Len(mres.arg) = 2
    /\ minst.parameters = 3
    /\ Len(mres.res.val) = 2

\* C2: new_over(params, S) is what driving an instance by hand gives: an
\* instance constructed from S[0] that has been fed S has output exactly
\* new_over(params, S); and an instance constructed from S[0] and fed only
\* S[1:] has output new_over(params, S) without its first element.
C2_BatchEqualsManual ==
    minst # None =>
       /\ (mfed # <<>> /\ mfed[1] = minst.seed) =>
             LET b == Method_new_over(minst.m.kind, minst.parameters, mfed)
             IN  b.status = "Ok" /\ b.val = mouts
       /\ LET b == Method_new_over(minst.m.kind, minst.parameters,
                                   <<minst.seed>> \o mfed)
          IN  b.status = "Ok" /\ Tail(b.val) = mouts

C2_Witness ==
    /\ minst # None
    /\ minst.m.kind = "TRIMA"
    /\ minst.parameters = 2
    /\ mfed = <<R(1), R(3), R(4)>>
    /\ minst.seed = R(1)
    /\ mres.op = "next"

\* C3: the outputs of TRIMA(p) seeded with v and fed S are those of SMA(p)
\* seeded with v run over the outputs of SMA(p) seeded with v run over S;
\* each is the mean of the last p first-stage averages, missing history
\* counting as the seed. Period 4, seed 1, inputs 1,2,3,4: the third output
\* is 1.25 and the fourth 1.625.
Padded(seq, seed, i) == IF i >= 1 THEN seq[i] ELSE seed

RECURSIVE SumLast(_, _, _, _)
SumLast(seq, seed, i, n) ==
    IF n = 0 THEN Zero
    ELSE RAdd(Padded(seq, seed, i), SumLast(seq, seed, i - 1, n - 1))

MeansOf(seq, seed, p) ==
    [i \in 1..Len(seq) |-> RDiv(SumLast(seq, seed, i, p), R(p))]

C3_TrimaIsSmaOfSma ==
    (minst # None /\ minst.m.kind = "TRIMA") =>
       LET p      == minst.parameters
           v      == minst.seed
           stage1 == Method_over(Method_new("SMA", p, v).val, mfed).out
           stage2 == Method_over(Method_new("SMA", p, v).val, stage1).out
       IN  /\ mouts = stage2
           /\ mouts = MeansOf(MeansOf(mfed, v, p), v, p)
           /\ (p = 4 /\ v = R(1) /\ mfed = <<R(1), R(2), R(3), R(4)>>) =>
                 (mouts[3] = Rat(5, 4) /\ mouts[4] = Rat(13, 8))

C3_Witness ==
    /\ minst # None /\ minst.m.kind = "TRIMA"
    /\ minst.parameters = 4 /\ minst.seed = R(1)
    /\ mfed = <<R(1), R(2), R(3), R(4)>>
    /\ mouts[3] = Rat(5, 4) /\ mouts[4] = Rat(13, 8)

C5_Valid(kind, c) ==
    IF kind = "CMO"
    THEN RLe(Zero, c.zone) /\ RLe(c.zone, One) /\ c.period > 1
    ELSE RLe(Zero, c.zone) /\ 1 < c.period /\ c.period < PeriodTypeMAX

C5_InitValidates ==
    /\ (ires # None /\ ires.op = "init" /\ ~C5_Valid(ikind, ires.before)) =>
          /\ ires.res.status = "Err"
          /\ ires.res.err = "WrongConfig"
          /\ ires.res.val = <<>>
          /\ ires.res.calls = <<>>
    /\ inst # None => C5_Valid(ikind, inst.i.cfg)

C5_Witness ==
    /\ ires # None /\ ires.op = "init"
    /\ ikind = "CCI"
    /\ ires.before.period = PeriodTypeMAX
    /\ ires.res.err = "WrongConfig"
    /\ nsets = 1

\* C6: set with a name other than period, zone, source returns
\* Err(ParameterParse(name, value)); with one of these names and a value that
\* does not parse into the field's type it returns
\* Err(ParameterParse(name, value)) with the raw string; in both cases the
\* config is unchanged. On success the named field holds the parsed value
\* and the other fields are unchanged.
C6_Period(raw) ==
    CASE raw = <<"1">> -> <<1>>
      [] raw = <<"2">> -> <<2>>
      [] raw = <<"2", "5", "5">> -> <<255>>
      [] OTHER -> <<>>

C6_Zone(raw) ==
    CASE raw = <<"1">> -> <<R(1)>>
      [] raw = <<"2">> -> <<R(2)>>
      [] raw = <<"2", "5", "5">> -> <<R(255)>>
      [] raw = <<"2", "5", "6">> -> <<R(256)>>
      [] raw = <<"0", ".", "5">> -> <<Rat(1, 2)>>
      [] raw = <<"-", "1">> -> <<R(-1)>>
      [] OTHER -> <<>>

C6_Source(raw) ==
    CASE raw = <<"o", "p", "e", "n">> -> <<"Open">>
      [] OTHER -> <<>>

C6_Failed(r) ==
    /\ r.res.status = "Err"
    /\ r.res.err = "ParameterParse"
    /\ r.res.val = <<r.name, r.raw>>
    /\ cfg = r.before

C6_SetParses ==
    (ires # None /\ ires.op = "set") =>
       CASE ires.name = "period" ->
               IF C6_Period(ires.raw) = <<>> THEN C6_Failed(ires)
               ELSE /\ ires.res.status = "Ok"
                    /\ cfg = [ires.before EXCEPT !.period = C6_Period(ires.raw)[1]]
         [] ires.name = "zone" ->
               IF C6_Zone(ires.raw) = <<>> THEN C6_Failed(ires)
               ELSE /\ ires.res.status = "Ok"
                    /\ cfg = [ires.before EXCEPT !.zone = C6_Zone(ires.raw)[1]]
         [] ires.name = "source" ->
               IF C6_Source(ires.raw) = <<>> THEN C6_Failed(ires)
               ELSE /\ ires.res.status = "Ok"
                    /\ cfg = [ires.before EXCEPT !.source = C6_Source(ires.raw)[1]]
         [] OTHER -> C6_Failed(ires)

C6_Witness ==
    /\ ires # None /\ ires.op = "set"
    /\ ires.name = "period"
    /\ ires.raw = <<"o", "p", "e", "n">>
    /\ ires.res.val = <<"period", <<"o", "p", "e", "n">>>>
    /\ ires.before.zone = R(-1)
    /\ cfg = ires.before

\* the value of the tick before tick k; before the first tick it is 0
PrevValue(k) == IF k = 1 THEN Zero ELSE ivals[k - 1]

\* C7: on every tick of a live ChandeMomentumOscillator the signal is +1
\* exactly when the value is below -zone and the value of the tick before
\* was not, -1 exactly when the value is above zone and the value of the
\* tick before was not, and 0 on every other tick.
C7_CmoSignal ==
    (ikind = "CMO" /\ inst # None) =>
       \A k \in 1..Len(ivals) :
          LET z == inst.i.cfg.zone
          IN  /\ isigs[k] \in {-1, 0, 1}
              /\ isigs[k] = 1 <=>
                    (RLt(ivals[k], RNeg(z)) /\ RGe(PrevValue(k), RNeg(z)))
              /\ isigs[k] = -1 <=>
                    (RGt(ivals[k], z) /\ RLe(PrevValue(k), z))

C7_Witness ==
    /\ ikind = "CMO" /\ inst # None
    /\ ivals = <<R(1), Zero, R(-1)>>
    /\ isigs = <<-1, 0, 1>>

\* C8: on every tick of a live CommodityChannelIndex the signal is +1
\* exactly when cci < -zone and last_cci >= -zone, -1 exactly when
\* cci > zone and last_cci <= zone, and 0 otherwise, last_cci being the value
\* of the tick before (0 before the first tick).
C8_CciSignal ==
    (ikind = "CCI" /\ inst # None) =>
       \A k \in 1..Len(ivals) :
          LET z == inst.i.cfg.zone
          IN  /\ isigs[k] \in {-1, 0, 1}
              /\ isigs[k] = 1 <=>
                    (RLt(ivals[k], RNeg(z)) /\ RGe(PrevValue(k), RNeg(z)))
              /\ isigs[k] = -1 <=>
                    (RGt(ivals[k], z) /\ RLe(PrevValue(k), z))

C8_Witness ==
    /\ ikind = "CCI" /\ inst # None
    /\ inst.i.cfg.zone = One
    /\ ivals = <<R(-2), R(1), R(2)>>
    /\ isigs = <<1, 0, -1>>

C10_CmoValue ==
    (ikind = "CMO" /\ ires # None /\ ires.op = "next") =>
       /\ IsFinite(ires.value)
       /\ RLe(R(-1), ires.value) /\ RLe(ires.value, One)
       /\ ires.divisor # <<>> => (IsFinite(ires.divisor[1]) /\ ires.divisor[1] # Zero)
       /\ (inst.i.pos_sum = Zero /\ inst.i.neg_sum = Zero) =>
             (ires.divisor = <<>> /\ ires.value = Zero)
       /\ \A k \in 1..Len(ivals) :
             IsFinite(ivals[k]) /\ RLe(R(-1), ivals[k]) /\ RLe(ivals[k], One)

C10_Witness ==
    /\ ikind = "CMO" /\ ires # None /\ ires.op = "next"
    /\ ivals = <<One, One, Zero>>
    /\ ires.divisor = <<>>
    /\ inst.i.pos_sum = Zero /\ inst.i.neg_sum = Zero

\* C11: a Window of capacity n >= 1 and seed s always holds exactly n
\* elements; the k-th push returns s when k <= n and otherwise the value of
\* the (k-n)-th push; after any number of pushes the window holds, oldest
\* first from the cursor, the n most recently pushed values, the seed
\* standing for the pushes that have not happened yet.
C11_WindowEvicts ==
    winst # None =>
       LET n == winst.size
           s == winst.seed
           m == Len(wfed)
           w == winst.w
       IN  /\ Len(w.buf) = n
           /\ w.index \in 1..n
           /\ Len(wouts) = m
           /\ \A k \in 1..m : wouts[k] = IF k <= n THEN s ELSE wfed[k - n]
           /\ \A j \in 1..n :
                 w.buf[((w.index + j - 2) % n) + 1] = Padded(wfed, s, m - n + j)

C11_Witness ==
    /\ winst # None
    /\ winst.size = 2 /\ winst.seed = R(1)
    /\ wfed = <<R(2), R(3), R(4)>>
    /\ wouts = <<R(1), R(1), R(2)>>

\* the documented example input
C12_OneToTen == [i \in 1..10 |-> R(i)]

\* C12: an SMA of period n >= 1 constructed from a seed and fed S outputs at
\* index i the mean of the last n inputs, the seed standing for the inputs
\* before the first (the seed is S[0] when the instance is constructed from
\* the sequence it is fed); period 2 over 1, 2, ..., 10 yields
\* 1, 1.5, 2.5, 3.5, 4.5, 5.5, 6.5, 7.5, 8.5, 9.5.
C12_SmaIsMean ==
    /\ (minst # None /\ minst.m.kind = "SMA") =>
          /\ minst.parameters >= 1
          /\ \A i \in 1..Len(mfed) :
                mouts[i] = RDiv(SumLast(mfed, minst.seed, i, minst.parameters),
                                R(minst.parameters))
    /\ (mjob # None /\ mjob.kind = "SMA" /\ mjob.parameters >= 1) =>
          /\ mjob.res.status = "Ok"
          /\ \A i \in 1..Len(mjob.inputs) :
                mjob.res.val[i] = RDiv(SumLast(mjob.inputs, mjob.inputs[1], i,
                                               mjob.parameters),
                                       R(mjob.parameters))
    /\ Method_new_over("SMA", 2, C12_OneToTen).val =
          <<R(1), Rat(3, 2), Rat(5, 2), Rat(7, 2), Rat(9, 2), Rat(11, 2),
            Rat(13, 2), Rat(15, 2), Rat(17, 2), Rat(19, 2)>>

C12_Witness ==
    /\ mjob # None /\ mjob.kind = "SMA" /\ mjob.parameters = 2
    /\ mjob.inputs = <<R(1), R(2), R(3), R(4)>>
    /\ mjob.res.val = <<R(1), Rat(3, 2), Rat(5, 2), Rat(7, 2)>>

\* C13 as stated: a period-1 instance of any method, seeded with any value
\* and fed any sequence, returns on every next exactly the value it was
\* given.
C13_AsStated ==
    /\ (minst # None /\ minst.parameters = 1) => mouts = mfed
    /\ (mjob # None /\ mjob.parameters = 1) => mjob.res.val = mjob.inputs

\* C13, amended: a period-1 moving average, SMA(1) or the cascade TRIMA(1),
\* seeded with any value and fed any sequence, returns on every next exactly
\* the value it was given. The differencing method Change(1) does not: it
\* returns the value it was given minus the value given before (the seed on
\* the first next).
C13_PeriodOne ==
    /\ (minst # None /\ minst.parameters = 1) =>
          IF minst.m.kind \in {"SMA", "TRIMA"}
          THEN mouts = mfed
          ELSE /\ Len(mouts) = Len(mfed)
               /\ \A i \in 1..Len(mfed) :
                     mouts[i] = RSub(mfed[i], Padded(mfed, minst.seed, i - 1))
    /\ (mjob # None /\ mjob.parameters = 1 /\ mjob.kind \in {"SMA", "TRIMA"}) =>
          mjob.res.val = mjob.inputs

C13_Witness ==
    /\ minst # None /\ minst.parameters = 1
    /\ minst.m.kind = "TRIMA"
    /\ minst.seed = R(2)
    /\ mfed = <<R(4), R(1), R(3)>>
    /\ mouts = <<R(4), R(1), R(3)>>

\* C14: an SMA of any valid period p, in any state, that has been fed the
\* same value v on p ticks in a row outputs exactly v on the last of them,
\* as it does on every later tick for as long as v is fed.
C14_ConstantFixedPoint ==
    (minst # None /\ minst.m.kind = "SMA") =>
       LET p == minst.parameters
       IN  \A i \in p..Len(mfed) :
              (\A k \in (i - p + 1)..i : mfed[k] = mfed[i]) => mouts[i] = mfed[i]

C14_Witness ==
    /\ minst # None /\ minst.m.kind = "SMA"
    /\ minst.parameters = 3 /\ minst.seed = R(1)
    /\ mfed = <<R(4), R(2), R(3), R(3), R(3), R(3)>>
    /\ mouts[4] = Rat(8, 3)
    /\ mouts[5] = R(3) /\ mouts[6] = R(3)

\* C20: a TRIMA of period p seeded with v and fed v on every tick outputs v
\* on every tick; seeded with another value u and fed v on every tick it
\* outputs v on tick 2p-1 (ticks counted from 1) and on every later tick,
\* and for p > 1 its output on tick p, where a single moving average has
\* reached v, is not yet v.
C20_TrimaSettles ==
    (/\ minst # None /\ minst.m.kind = "TRIMA"
     /\ \A k \in 1..Len(mfed) : mfed[k] = mfed[1]) =>
       LET p == minst.parameters
           n == Len(mfed)
       IN  /\ (n >= 1 /\ mfed[1] = minst.seed) =>
                 \A t \in 1..n : mouts[t] = mfed[1] /\ mouts[t] = mouts[1]
           /\ (n >= 1 /\ mfed[1] # minst.seed) =>
                 /\ \A t \in (2 * p - 1)..n : mouts[t] = mfed[1]
                 /\ (p > 1 /\ n >= p) => mouts[p] # mfed[1]
                 /\ (n >= p) =>
                       Method_over(Method_new("SMA", p, minst.seed).val, mfed).out[p]
                          = mfed[1]

C20_Witness ==
    /\ minst # None /\ minst.m.kind = "TRIMA"
    /\ minst.parameters = 3 /\ minst.seed = R(1)
    /\ mfed = <<R(3), R(3), R(3), R(3), R(3), R(3)>>
    /\ mouts[3] # R(3) /\ mouts[4] # R(3)
    /\ mouts[5] = R(3) /\ mouts[6] = R(3)

\* C15: constructing a method with period 0, TRIMA included, returns a
\* configuration error as a typed result: it does not panic and it yields no
\* instance.
C15_TypedError ==
    (mres # None /\ mres.op = "new" /\ mres.parameters = 0) =>
       /\ mres.res.status = "Err"
       /\ mres.res.err = "WrongMethodParameters"
       /\ minst = None

\* C16: new_over on an empty sequence returns Ok(empty) without calling new,
\* whatever the parameters; on a non-empty sequence it returns Err exactly
\* when new(params, S[0]) fails, and then next is never called.
C16_NewOverErrors ==
    mjob # None =>
       IF mjob.inputs = <<>>
       THEN /\ mjob.res.status = "Ok"
            /\ mjob.res.val = <<>>
            /\ mjob.res.news = 0
            /\ mjob.res.calls = <<>>
       ELSE LET made == Method_new(mjob.kind, mjob.parameters, mjob.inputs[1])
            IN  /\ mjob.res.status = "Err" <=> made.status # "Ok"
                /\ made.status # "Ok" => mjob.res.calls = <<>>
                /\ mjob.res.status = "Err" <=> mjob.parameters = 0

\* the signal a zone gives for a value and the value before it; the parts of
\* the property: what holds in every state, of a set step, of an init step
C17_Signal(value, prev, zone) ==
    (IF RLt(value, RNeg(zone)) /\ RGe(prev, RNeg(zone)) THEN 1 ELSE 0)
       - (IF RGt(value, zone) /\ RLe(prev, zone) THEN 1 ELSE 0)

C17_InstanceKeepsConfig ==
    inst # None =>
       /\ inst.i.cfg = iorigin
       /\ \A k \in 1..Len(ivals) :
             isigs[k] = C17_Signal(ivals[k], PrevValue(k), iorigin.zone)

C17_SetStep ==
    (ires' # None /\ ires'.op = "set") =>
       /\ inst' = inst
       /\ ivals' = ivals /\ isigs' = isigs /\ isrcs' = isrcs /\ iorigin' = iorigin

C17_InitStep ==
    (ires' # ires /\ ires'.op = "init" /\ ires'.res.status = "Ok") =>
       /\ inst'.i.cfg = cfg /\ cfg' = cfg

\* C17: a set on the config value never changes the live instance: every
\* step that ends in the result of a set leaves the instance, its outputs and
\* the sources it has read as they were; the config the instance reports is
\* at all times the config init was called on, and the signals of the
\* instance follow the zone of that config, whatever the caller's config has
\* become; an init that succeeds makes an instance of the caller's config as
\* it is then.
C17_SetLeavesInstance ==
    /\ []C17_InstanceKeepsConfig
    /\ [][C17_SetStep /\ C17_InitStep]_vars

C17_Witness ==
    /\ ikind = "CMO" /\ inst # None
    /\ cfg.zone = One /\ inst.i.cfg.zone = Rat(1, 2)
    /\ ires.op = "next"
    /\ ivals = <<One>>
    /\ isigs = <<-1>>

\* the change of the source on tick k of the instance
C18_Change(k) == IF k >= 1 THEN RSub(isrcs[k + 1], isrcs[k]) ELSE Zero

\* the rescans, summing the two halves of the slots lo..hi
RECURSIVE C18_PosScan(_, _, _)
C18_PosScan(buf, lo, hi) ==
    IF lo > hi THEN Zero
    ELSE IF lo = hi THEN (IF RGt(buf[lo], Zero) THEN buf[lo] ELSE Zero)
    ELSE LET mid == (lo + hi) \div 2
         IN  RAdd(C18_PosScan(buf, lo, mid), C18_PosScan(buf, mid + 1, hi))

RECURSIVE C18_NegScan(_, _, _)
C18_NegScan(buf, lo, hi) ==
    IF lo > hi THEN Zero
    ELSE IF lo = hi THEN (IF RLt(buf[lo], Zero) THEN RNeg(buf[lo]) ELSE Zero)
    ELSE LET mid == (lo + hi) \div 2
         IN  RAdd(C18_NegScan(buf, lo, mid), C18_NegScan(buf, mid + 1, hi))

\* C18: after init and after every next of a ChandeMomentumOscillator the
\* window holds, oldest first from the cursor, the last `period` one-tick
\* changes of the source (0 standing for the ticks before init), pos_sum is
\* the sum of the positive values in the window and neg_sum the sum of the
\* magnitudes of the negative ones, as a rescan of the window gives them;
\* neither sum is negative.
C18_RunningSums ==
    (ikind = "CMO" /\ inst # None) =>
       LET p == inst.i.cfg.period
           w == inst.i.window
           n == Len(isrcs) - 1
       IN  /\ n = Len(ivals)
           /\ Len(w.buf) = p
           /\ \A j \in 1..p :
                 w.buf[((w.index + j - 2) % p) + 1] = C18_Change(n - p + j)
           /\ inst.i.pos_sum = C18_PosScan(w.buf, 1, p)
           /\ inst.i.neg_sum = C18_NegScan(w.buf, 1, p)
           /\ RGe(inst.i.pos_sum, Zero) /\ RGe(inst.i.neg_sum, Zero)

C18_Witness ==
    /\ ikind = "CMO" /\ inst # None
    /\ inst.i.cfg.period = 2
    /\ isrcs = <<R(1), R(3), R(2), R(3)>>
    /\ inst.i.pos_sum = One /\ inst.i.neg_sum = One

\* t_signal of a tick, from its value, the value before and the zone
C19_Raw(value, prev, zone) ==
    IF RLt(value, RNeg(zone)) /\ RGe(prev, RNeg(zone))
    THEN (IF RGt(value, zone) /\ RLe(prev, zone) THEN 0 ELSE 1)
    ELSE (IF RGt(value, zone) /\ RLe(prev, zone) THEN -1 ELSE 0)

\* C19: in every state of a live CommodityChannelIndex (its zone is >= 0)
\* last_signal is the signal of the tick before (0 before the first tick and
\* after every tick without a signal) and last_cci its value; the signal of
\* every tick is the raw crossing signal t_signal of that tick; a nonzero
\* raw signal never equals the signal of the tick before, and whatever the
\* method returns on the next tick, a nonzero raw signal of that tick differs
\* from last_signal, so the guard last_signal != t_signal suppresses nothing.
C19_GuardIdle ==
    (ikind = "CCI" /\ inst # None) =>
       LET z == inst.i.cfg.zone
           n == Len(ivals)
       IN  /\ RGe(z, Zero)
           /\ inst.i.last_signal = IF n = 0 THEN 0 ELSE isigs[n]
           /\ inst.i.last_cci = IF n = 0 THEN Zero ELSE ivals[n]
           /\ \A k \in 1..n :
                 /\ isigs[k] = C19_Raw(ivals[k], PrevValue(k), z)
                 /\ (k > 1 /\ isigs[k] # 0) => isigs[k] # isigs[k - 1]
           /\ \A m \in MethodOutputs :
                 LET raw == C19_Raw(RMul(m, SCALE), inst.i.last_cci, z)
                 IN  raw # 0 => raw # inst.i.last_signal

C19_Witness ==
    /\ ikind = "CCI" /\ inst # None
    /\ inst.i.cfg.zone = One
    /\ ivals = <<R(-2), Zero, R(-2)>>
    /\ isigs = <<1, 0, 1>>
    /\ inst.i.last_signal = 1

====
